---- MODULE Spec2Model ----
(***************************************************************************)
(* Model of MolarAnalyzer.py: the MolarAnalyzerWidget of a 3D Slicer       *)
(* scripted module.  The widget reads control point 0 of two markups       *)
(* nodes, installs two model nodes ("Amber_Line_Plane", "Red_Line_Plane")  *)
(* in the MRML scene and writes a risk prediction into its results label.  *)
(*                                                                         *)
(* Coordinates are millimetres on an integer grid; colour components and   *)
(* opacities are tenths (0.6 is 6, 0.3 is 3, 1 is 10).                     *)
(***************************************************************************)
EXTENDS Integers, Sequences, FiniteSets

VARIABLES
    markups,      \* markups fiducial nodes of the scene: name -> control points
    segmentations,\* segmentation nodes of the scene
    scene,        \* model nodes of the MRML scene, in creation order
    labelText,    \* resultsLabel.text
    labelStyle,   \* resultsLabel style sheet
    lastRun,      \* history: what the latest onApplyButton was given
    lastRead,     \* history: pos_bone / pos_nerve of the latest valid run
    edits,        \* history: number of user edits made in the viewer
    cleared       \* history: the scene was cleared since the latest valid run

vars == <<markups, segmentations, scene, labelText, labelStyle,
          lastRun, lastRead, edits, cleared>>

----------------------------------------------------------------------------
(* Bounds of the model *)

MaxZ == 5          \* landmark heights range over 0..MaxZ
MaxPoints == 2     \* control points per markups node
MaxEdits == 2      \* user edits (nodes, landmarks, display) per behaviour

(* Host objects the user can pick in the selectors *)
None == "None"
SegNodes == {"Segmentation", "Segmentation_1"}
MarkupNodes == {"F", "F_1"}
XYs == {0, 1}
Positions == {<<x, y, z>> : x \in XYs, y \in XYs, z \in 0..MaxZ}
AxisPositions == {<<0, 0, z>> : z \in 0..MaxZ}
UserColors == {<<10, 0, 0>>, <<0, 0, 10>>}
UserOpacities == {10}
PlaneNames == {"Amber_Line_Plane", "Red_Line_Plane"}

----------------------------------------------------------------------------
(* Host operations used by the widget *)

abs_signed(v) == v

abs(v) == IF v < 0 THEN -v ELSE v

(* slicer.mrmlScene.GetFirstNodeByName: index of the first node, 0 if none *)
GetFirstNodeByName(sc, name) ==
    IF \E i \in 1..Len(sc) : sc[i].name = name
    THEN CHOOSE i \in 1..Len(sc) :
            /\ sc[i].name = name
            /\ \A j \in 1..(i - 1) : sc[j].name # name
    ELSE 0

(* AddNewNodeByClass("vtkMRMLModelNode", name) + CreateDefaultDisplayNodes *)
AddNewNodeByClass(sc, name) ==
    Append(sc, [name |-> name,
                polyData |-> <<>>,
                color |-> <<5, 5, 5>>,
                opacity |-> 10,
                sliceIntersectionVisibility |-> FALSE,
                lineWidth |-> 1])

----------------------------------------------------------------------------
(* MolarAnalyzerWidget *)

(* updateSegmentList: the items of the Target Tooth dropdown *)
updateSegmentList ==
    << [text |-> "Select Tooth...", data |-> "None"],
       [text |-> "Lower Left Wisdom (38)", data |-> "38"],
       [text |-> "Lower Right Wisdom (48)", data |-> "48"],
       [text |-> "Mandible (Bone)", data |-> "mandible"],
       [text |-> "Inferior Alveolar Nerve", data |-> "nerve"] >>

(* The selections onApplyButton can read from the four selectors when the  *)
(* scene holds the segmentation nodes segs and the markups nodes m          *)
Widgets(segs, m) ==
    [seg : segs \cup {None},
     tooth : 1..Len(updateSegmentList),
     bone : DOMAIN m \cup {None},
     nerve : DOMAIN m \cup {None}]

size == 60

planeSource_copiedRow(center) ==
    << <<center[1] - size, center[2] - size, center[3]>>,
       <<center[1] + size, center[2] - size, center[3]>>,
       <<center[1] - size, center[2] - size, center[3]>>,
       <<center[1] + size, center[2] - size, center[3]>> >>

(* createPlane: the points of planeSource.GetOutput(): origin, point1,     *)
(* point2 and the corner opposite the origin                               *)
planeSource(center) ==
    << <<center[1] - size, center[2] - size, center[3]>>,
       <<center[1] + size, center[2] - size, center[3]>>,
       <<center[1] - size, center[2] + size, center[3]>>,
       <<center[1] + size, center[2] + size, center[3]>> >>

modelNode_alwaysNew(sc, name) == AddNewNodeByClass(sc, name)

(* createPlane: the scene once the node called name exists *)
modelNode(sc, name) ==
    IF GetFirstNodeByName(sc, name) = 0 THEN AddNewNodeByClass(sc, name) ELSE sc

displayNode_colorOnly(node, color) ==
    [node EXCEPT !.color = color,
                 !.sliceIntersectionVisibility = TRUE,
                 !.lineWidth = 3]

(* createPlane: the visual properties set on the display node *)
displayNode(node, color) ==
    [node EXCEPT !.color = color,
                 !.opacity = 3,
                 !.sliceIntersectionVisibility = TRUE,
                 !.lineWidth = 3]

createPlane_geometryOnce(sc, name, center, color) ==
    LET found == GetFirstNodeByName(sc, name)
        sc1 == modelNode(sc, name)
        idx == IF found = 0 THEN Len(sc1) ELSE found
    IN [sc1 EXCEPT ![idx] =
           displayNode(IF found = 0
                       THEN [@ EXCEPT !.polyData = planeSource(center)]
                       ELSE @, color)]

(* createPlane: the scene after createPlane(name, center, color) *)
createPlane(sc, name, center, color) ==
    LET sc1 == modelNode(sc, name)
        idx == IF Len(sc1) > Len(sc) THEN Len(sc1) ELSE GetFirstNodeByName(sc, name)
    IN [sc1 EXCEPT ![idx] =
           displayNode([@ EXCEPT !.polyData = planeSource(center)], color)]

classify_inclusive(diff) ==
    IF diff <= 2
    THEN [risk_class |-> "HIGH COMPLEXITY (Red)", color |-> "#ffcccc"]
    ELSE IF diff <= 5
    THEN [risk_class |-> "MODERATE COMPLEXITY (Amber)", color |-> "#fff4cc"]
    ELSE [risk_class |-> "LOW COMPLEXITY (White)", color |-> "#ccffcc"]

(* onApplyButton: risk class and label colour of a difference *)
classify(diff) ==
    IF diff < 2
    THEN [risk_class |-> "HIGH COMPLEXITY (Red)", color |-> "#ffcccc"]
    ELSE IF diff < 5
    THEN [risk_class |-> "MODERATE COMPLEXITY (Amber)", color |-> "#fff4cc"]
    ELSE [risk_class |-> "LOW COMPLEXITY (White)", color |-> "#ccffcc"]

(* The label texts and style sheets the widget sets *)
ReadyText == [kind |-> "ready", msg |-> "Ready for Analysis", depth |-> 0]
SelectErrorText ==
    [kind |-> "error",
     msg |-> "Error: Please select Segmentation, Bone Point, and Nerve Point!",
     depth |-> 0]
PointsErrorText ==
    [kind |-> "error", msg |-> "Error: Place points on the image first!",
     depth |-> 0]
ResultText(diff, risk_class) ==
    [kind |-> "result", msg |-> risk_class, depth |-> diff]

ReadyStyle == <<"border: 1px solid gray; padding: 10px; background-color: #f0f0f0;">>
SelectErrorStyle == <<"background-color: #ffcccc; color: red; font-weight: bold;">>
ResultStyle(color) ==
    <<"background-color: ", color,
      "; font-weight: bold; padding: 10px; border: 2px solid black;">>

Origin == <<0, 0, 0>>

selectionMissing_noSegmentation(w) == w.bone = None \/ w.nerve = None

selectionMissing_toothRequired(w) ==
    \/ w.seg = None \/ w.bone = None \/ w.nerve = None
    \/ updateSegmentList[w.tooth].data = "None"

(* onApplyButton, 1. Validation: "not segNode or not boneNode or not nerveNode" *)
selectionMissing(w) == w.seg = None \/ w.bone = None \/ w.nerve = None

(* onApplyButton: "Check if points exist" *)
pointsMissing(w, m) == Len(m[w.bone]) < 1 \/ Len(m[w.nerve]) < 1

selectionError(sc, style) ==
    [outcome |-> "select", scene |-> sc,
     text |-> SelectErrorText, style |-> SelectErrorStyle,
     pos_bone |-> Origin, pos_nerve |-> Origin]

pointsError_restyled(sc, style) ==
    [outcome |-> "points", scene |-> sc,
     text |-> PointsErrorText, style |-> SelectErrorStyle,
     pos_bone |-> Origin, pos_nerve |-> Origin]

(* onApplyButton: the return taken when a node holds no control point *)
pointsError(sc, style) ==
    [outcome |-> "points", scene |-> sc,
     text |-> PointsErrorText, style |-> style,
     pos_bone |-> Origin, pos_nerve |-> Origin]

analysis_wrongAxis(pos_bone, pos_nerve, sc) ==
    LET sc1 == createPlane(sc, "Amber_Line_Plane", pos_bone, <<10, 6, 0>>)
        sc2 == createPlane(sc1, "Red_Line_Plane", pos_nerve, <<10, 0, 0>>)
        diff == abs(pos_bone[2] - pos_nerve[2])
        c == classify(diff)
    IN [outcome |-> "ok", scene |-> sc2,
        text |-> ResultText(diff, c.risk_class),
        style |-> ResultStyle(c.color),
        pos_bone |-> pos_bone, pos_nerve |-> pos_nerve]

(* onApplyButton, steps 3 and 4: the planes, the difference and the label *)
analysis(pos_bone, pos_nerve, sc) ==
    LET sc1 == createPlane(sc, "Amber_Line_Plane", pos_bone, <<10, 6, 0>>)
        sc2 == createPlane(sc1, "Red_Line_Plane", pos_nerve, <<10, 0, 0>>)
        diff == abs(pos_bone[3] - pos_nerve[3])
        c == classify(diff)
    IN [outcome |-> "ok", scene |-> sc2,
        text |-> ResultText(diff, c.risk_class),
        style |-> ResultStyle(c.color),
        pos_bone |-> pos_bone, pos_nerve |-> pos_nerve]

(* onApplyButton as a function of the selections w, the markups m, the     *)
(* scene sc and the label's style sheet                                    *)
applyResult(w, m, sc, style) ==
    IF selectionMissing(w) THEN selectionError(sc, style)
    ELSE IF pointsMissing(w, m) THEN pointsError(sc, style)
    ELSE analysis(m[w.bone][1], m[w.nerve][1], sc)

----------------------------------------------------------------------------
(* State machine *)

NoRun == [input |-> "none", bone0 |-> Origin, nerve0 |-> Origin,
          prePlanes |-> 0, preCustom |-> FALSE]
NoRead == [valid |-> FALSE, pos_bone |-> Origin, pos_nerve |-> Origin]

(* The module has just been set up in a scene with two segmentations and   *)
(* two empty markups nodes                                                 *)
Init ==
    /\ markups = [n \in MarkupNodes |-> <<>>]
    /\ segmentations = SegNodes
    /\ cleared = FALSE
    /\ scene = <<>>
    /\ labelText = ReadyText
    /\ labelStyle = ReadyStyle
    /\ lastRun = NoRun
    /\ lastRead = NoRead
    /\ edits = 0

(* The module has just been set up in a scene whose markups nodes already  *)
(* hold landmarks anywhere in the grid: F holds two, F_1 one               *)
InitGrid ==
    /\ \E p \in Positions, q \in Positions :
          markups = [n \in MarkupNodes |-> IF n = "F" THEN <<p, q>> ELSE <<q>>]
    /\ segmentations = SegNodes
    /\ cleared = FALSE
    /\ scene = <<>>
    /\ labelText = ReadyText
    /\ labelStyle = ReadyStyle
    /\ lastRun = NoRun
    /\ lastRead = NoRead
    /\ edits = 0

StandardDisplay(node) ==
    /\ node.opacity = 3
    /\ node.color = IF node.name = "Amber_Line_Plane"
                    THEN <<10, 6, 0>> ELSE <<10, 0, 0>>

Placed(m, n) == n # None /\ Len(m[n]) >= 1

(* The user places a new control point in node n *)
AddControlPoint(n, p) ==
    /\ edits < MaxEdits
    /\ n \in DOMAIN markups
    /\ Len(markups[n]) < MaxPoints
    /\ markups' = [markups EXCEPT ![n] = Append(@, p)]
    /\ edits' = edits + 1
    /\ UNCHANGED <<segmentations, scene, labelText, labelStyle,
                   lastRun, lastRead, cleared>>

(* The user drags control point i of node n *)
SetNthControlPointPosition(n, i, p) ==
    /\ edits < MaxEdits
    /\ n \in DOMAIN markups
    /\ i \in 1..Len(markups[n])
    /\ markups[n][i] # p
    /\ markups' = [markups EXCEPT ![n][i] = p]
    /\ edits' = edits + 1
    /\ UNCHANGED <<segmentations, scene, labelText, labelStyle,
                   lastRun, lastRead, cleared>>

(* The user deletes control point i of node n *)
RemoveNthControlPoint(n, i) ==
    /\ edits < MaxEdits
    /\ n \in DOMAIN markups
    /\ i \in 1..Len(markups[n])
    /\ markups' = [markups EXCEPT ![n] =
                      [k \in 1..(Len(@) - 1) |-> IF k < i THEN @[k] ELSE @[k + 1]]]
    /\ edits' = edits + 1
    /\ UNCHANGED <<segmentations, scene, labelText, labelStyle,
                   lastRun, lastRead, cleared>>

(* The user changes colour and opacity of model node i in the Models module *)
UserSetDisplay(i, c, o) ==
    /\ edits < MaxEdits
    /\ i \in 1..Len(scene)
    /\ <<scene[i].color, scene[i].opacity>> # <<c, o>>
    /\ scene' = [scene EXCEPT ![i] = [@ EXCEPT !.color = c, !.opacity = o]]
    /\ edits' = edits + 1
    /\ UNCHANGED <<markups, segmentations, labelText, labelStyle,
                   lastRun, lastRead, cleared>>

(* The user creates markups node n from a landmark selector (addEnabled) *)
AddMarkupsNode(n) ==
    /\ edits < MaxEdits
    /\ n \notin DOMAIN markups
    /\ markups' = [x \in DOMAIN markups \cup {n} |->
                      IF x = n THEN <<>> ELSE markups[x]]
    /\ edits' = edits + 1
    /\ UNCHANGED <<segmentations, scene, labelText, labelStyle,
                   lastRun, lastRead, cleared>>

(* The upstream segmentation tool adds segmentation node s to the scene *)
AddSegmentation(s) ==
    /\ s \notin segmentations
    /\ segmentations' = segmentations \cup {s}
    /\ UNCHANGED <<markups, scene, labelText, labelStyle,
                   lastRun, lastRead, edits, cleared>>

(* MolarAnalyzerTest.runTest: setUp clears the MRML scene; every node of   *)
(* the scene goes, the widget and its label stay                           *)
runTest ==
    /\ scene' = <<>>
    /\ markups' = [x \in {} |-> <<>>]
    /\ segmentations' = {}
    /\ cleared' = TRUE
    /\ UNCHANGED <<labelText, labelStyle, lastRun, lastRead, edits>>

(* The Generate button is clicked while the selectors hold w *)
onApplyButton(w) ==
    \E r \in {applyResult(w, markups, scene, labelStyle)} :
    LET selected == w.seg # None /\ w.bone # None /\ w.nerve # None
        both == Placed(markups, w.bone) /\ Placed(markups, w.nerve)
    IN /\ scene' = r.scene
       /\ labelText' = r.text
       /\ labelStyle' = r.style
       /\ lastRun' = [input |-> IF ~selected THEN "noSelection"
                                ELSE IF ~both THEN "noPoints" ELSE "valid",
                      bone0 |-> IF selected /\ both
                                THEN markups[w.bone][1] ELSE Origin,
                      nerve0 |-> IF selected /\ both
                                 THEN markups[w.nerve][1] ELSE Origin,
                      prePlanes |-> Cardinality({i \in 1..Len(scene) :
                                        scene[i].name \in PlaneNames}),
                      preCustom |-> \E i \in 1..Len(scene) :
                                        ~StandardDisplay(scene[i])]
       /\ lastRead' = IF r.outcome = "ok"
                      THEN [valid |-> TRUE, pos_bone |-> r.pos_bone,
                            pos_nerve |-> r.pos_nerve]
                      ELSE lastRead
       /\ cleared' = IF r.outcome = "ok" THEN FALSE ELSE cleared
       /\ UNCHANGED <<markups, segmentations, edits>>

Next ==
    \/ \E n \in MarkupNodes, p \in AxisPositions : AddControlPoint(n, p)
    \/ \E n \in MarkupNodes, i \in 1..MaxPoints, p \in AxisPositions :
          SetNthControlPointPosition(n, i, p)
    \/ \E n \in MarkupNodes, i \in 1..MaxPoints : RemoveNthControlPoint(n, i)
    \/ \E i \in 1..2, c \in UserColors, o \in UserOpacities : UserSetDisplay(i, c, o)
    \/ \E n \in MarkupNodes : AddMarkupsNode(n)
    \/ \E s \in SegNodes : AddSegmentation(s)
    \/ runTest
    \/ \E w \in Widgets(segmentations, markups) : onApplyButton(w)

(* Landmarks move along the vertical axis, planes are restyled, runs       *)
(* happen, the module's test clears the scene                              *)
Spec == Init /\ [][Next]_vars

NextGrid ==
    \/ \E w \in Widgets(segmentations, markups) : onApplyButton(w)
    \/ runTest

(* Runs over landmarks placed anywhere in the grid *)
SpecGrid == InitGrid /\ [][NextGrid]_vars

----------------------------------------------------------------------------
(* Vocabulary of the properties *)

(* The latest run was given every selection and a control point in both nodes *)
ValidRun == lastRun.input = "valid"

(* A step of onApplyButton: every other action changes the markups or the  *)
(* segmentations of the scene, or counts an edit                           *)
RunStep == markups' = markups /\ segmentations' = segmentations /\ edits' = edits

Distance(a, b) == IF a >= b THEN a - b ELSE b - a

TierShown(text) ==
    IF text.kind # "result" THEN "NONE"
    ELSE IF text.msg = "HIGH COMPLEXITY (Red)" THEN "HIGH"
    ELSE IF text.msg = "MODERATE COMPLEXITY (Amber)" THEN "MODERATE"
    ELSE IF text.msg = "LOW COMPLEXITY (White)" THEN "LOW"
    ELSE "OTHER"

NodesNamed(name) == {i \in 1..Len(scene) : scene[i].name = name}

(* The heights of the corners of the nodes called name *)
Heights(name) ==
    {scene[i].polyData[k][3] : i \in NodesNamed(name), k \in 1..4}

Corners(c) ==
    << <<c[1] - 60, c[2] - 60, c[3]>>, <<c[1] + 60, c[2] - 60, c[3]>>,
       <<c[1] - 60, c[2] + 60, c[3]>>, <<c[1] + 60, c[2] + 60, c[3]>> >>

Depth(w, m) == applyResult(w, m, scene, labelStyle).text.depth

WithXY(m, n, x, y) == [m EXCEPT ![n][1] = <<x, y, @[3]>>]

Outcome(w) ==
    LET r == applyResult(w, markups, scene, labelStyle)
    IN <<r.text, r.style, r.scene>>

----------------------------------------------------------------------------
(* C1: after a run that passes validation the label reports exactly one    *)
(* risk tier for d = |z of bone point - z of nerve point|: HIGH iff d < 2, *)
(* MODERATE iff 2 <= d < 5, LOW iff d >= 5 (so MODERATE at 2, LOW at 5).   *)
C1_RiskTiers ==
    ValidRun =>
        LET d == Distance(lastRun.bone0[3], lastRun.nerve0[3])
            t == TierShown(labelText)
        IN /\ t \in {"HIGH", "MODERATE", "LOW"}
           /\ (t = "HIGH") <=> (d < 2)
           /\ (t = "MODERATE") <=> (2 <= d /\ d < 5)
           /\ (t = "LOW") <=> (d >= 5)

C1_Witness ==
    /\ ValidRun
    /\ Distance(lastRun.bone0[3], lastRun.nerve0[3]) = 5
    /\ TierShown(labelText) = "LOW"

(* C2: the difference a passing run classifies is the absolute difference  *)
(* of the z components of control point 0 of the bone node and of the      *)
(* nerve node; it is never negative, it is the same with bone and nerve    *)
(* exchanged, and it ignores the x and y components of both points.        *)
C2_ZDifference ==
    /\ ValidRun =>
          /\ labelText.kind = "result"
          /\ labelText.depth = Distance(lastRun.bone0[3], lastRun.nerve0[3])
          /\ labelText.depth >= 0
    /\ \A b \in DOMAIN markups, n \in DOMAIN markups :
          (Len(markups[b]) >= 1 /\ Len(markups[n]) >= 1) =>
             LET w == [seg |-> "Segmentation", tooth |-> 1, bone |-> b, nerve |-> n]
                 d == Depth(w, markups)
             IN /\ d >= 0
                /\ d = Distance(markups[b][1][3], markups[n][1][3])
                /\ d = Depth([w EXCEPT !.bone = n, !.nerve = b], markups)
                /\ \A x \in XYs, y \in XYs :
                      /\ d = Depth(w, WithXY(markups, b, x, y))
                      /\ d = Depth(w, WithXY(markups, n, x, y))

C2_Witness ==
    /\ ValidRun
    /\ lastRun.bone0[3] < lastRun.nerve0[3]
    /\ lastRun.bone0[1] # lastRun.nerve0[1]
    /\ lastRun.bone0[2] # lastRun.nerve0[2]
    /\ labelText.depth = lastRun.nerve0[3] - lastRun.bone0[3]
    /\ \E n \in DOMAIN markups :
          /\ Len(markups[n]) = 2
          /\ markups[n][1] = lastRun.bone0
          /\ markups[n][2][3] # lastRun.bone0[3]

(* C3: a run with a selection missing, or with the bone or nerve node      *)
(* holding no control point, ends with an error message in the label,      *)
(* reports no tier and leaves the scene's plane nodes exactly as they were.*)
C3_FailedRunKeepsPlanes ==
    [][(RunStep /\ lastRun'.input \in {"noSelection", "noPoints"}) =>
          /\ labelText'.kind = "error"
          /\ TierShown(labelText') = "NONE"
          /\ scene' = scene]_vars

C3_Witness ==
    /\ lastRun.input \in {"noSelection", "noPoints"}
    /\ lastRun.prePlanes = 2
    /\ labelText.kind = "error"
    /\ Len(scene) = 2

(* C4: once a run has passed validation, the height of Amber_Line_Plane is *)
(* the bone z read by the most recent such run and the height of           *)
(* Red_Line_Plane is the nerve z read by that run, whatever landmark edits *)
(* and runs followed.  The claim is about states reached by landmark edits *)
(* and runs: a scene cleared by runTest holds no plane until the next      *)
(* passing run draws them again.                                           *)
C4_PlaneHeights ==
    (lastRead.valid /\ ~cleared) =>
        /\ Heights("Amber_Line_Plane") = {lastRead.pos_bone[3]}
        /\ Heights("Red_Line_Plane") = {lastRead.pos_nerve[3]}

C4_Witness ==
    /\ lastRead.valid
    /\ ValidRun
    /\ lastRun.prePlanes = 2
    /\ lastRead.pos_bone[3] # lastRead.pos_nerve[3]
    /\ Heights("Amber_Line_Plane") = {lastRead.pos_bone[3]}
    /\ edits = MaxEdits

(* C5: the first passing run creates the two plane nodes and later runs    *)
(* update them in place: the scene never holds more than one node named    *)
(* Amber_Line_Plane nor more than one named Red_Line_Plane.  Both exist    *)
(* from the first passing run on, until runTest clears the scene.          *)
C5_OnePlanePerName ==
    /\ \A name \in PlaneNames : Cardinality(NodesNamed(name)) <= 1
    /\ (lastRead.valid /\ ~cleared) => \A name \in PlaneNames : Cardinality(NodesNamed(name)) = 1
    /\ Len(scene) <= 2

C5_Witness ==
    /\ ValidRun
    /\ lastRun.prePlanes = 2
    /\ \A name \in PlaneNames : Cardinality(NodesNamed(name)) = 1

(* C6: createPlane installs, for the centre (cx, cy, cz) it is given, the  *)
(* rectangle with corners (cx-60, cy-60, cz), (cx+60, cy-60, cz),          *)
(* (cx-60, cy+60, cz), (cx+60, cy+60, cz): flat at z = cz, centred on the  *)
(* point, with sides of 120 whatever the point.                            *)
C6_PlaneCorners ==
    /\ lastRead.valid =>
          /\ \A i \in NodesNamed("Amber_Line_Plane") :
                scene[i].polyData = Corners(lastRead.pos_bone)
          /\ \A i \in NodesNamed("Red_Line_Plane") :
                scene[i].polyData = Corners(lastRead.pos_nerve)
    /\ \A i \in 1..Len(scene) :
          LET q == scene[i].polyData
          IN /\ \A k \in 1..4 : q[k][3] = q[1][3]
             /\ q[2][1] - q[1][1] = 120 /\ q[4][1] - q[3][1] = 120
             /\ q[3][2] - q[1][2] = 120 /\ q[4][2] - q[2][2] = 120
             /\ q[2][2] = q[1][2] /\ q[3][1] = q[1][1]

C6_Witness ==
    /\ lastRead.valid
    /\ lastRead.pos_bone = <<1, 1, 0>>
    /\ lastRead.pos_nerve = <<0, 1, MaxZ>>
    /\ Len(scene) = 2
    /\ scene[1].polyData = << <<-59, -59, 0>>, <<61, -59, 0>>,
                              <<-59, 61, 0>>, <<61, 61, 0>> >>

(* C7: every passing run leaves Amber_Line_Plane with colour (1, 0.6, 0),  *)
(* Red_Line_Plane with colour (1, 0, 0) and both with opacity 0.3,         *)
(* whatever their display properties, the landmarks and the tier were.     *)
C7_FixedDisplay ==
    [][(RunStep /\ lastRun'.input = "valid") =>
          /\ \A i \in 1..Len(scene') :
                /\ scene'[i].name = "Amber_Line_Plane" => scene'[i].color = <<10, 6, 0>>
                /\ scene'[i].name = "Red_Line_Plane" => scene'[i].color = <<10, 0, 0>>
                /\ scene'[i].opacity = 3
          /\ \A name \in PlaneNames : \E i \in 1..Len(scene') : scene'[i].name = name]_vars

C7_Witness ==
    /\ ValidRun
    /\ lastRun.preCustom
    /\ Len(scene) = 2
    /\ \A i \in 1..Len(scene) : StandardDisplay(scene[i])

(* C8: in the states reached by landmark edits and runs, whenever the      *)
(* label shows a risk prediction, both plane nodes exist and the tier      *)
(* shown is the tier of |height of Amber_Line_Plane - height of            *)
(* Red_Line_Plane|.  (After runTest has cleared the scene the label keeps  *)
(* its text and no plane is drawn: C8_AfterClear.)                         *)
C8_LabelAgreesWithPlanes ==
    (labelText.kind = "result" /\ ~cleared) =>
        /\ \A name \in PlaneNames : NodesNamed(name) # {}
        /\ \A a \in Heights("Amber_Line_Plane"), r \in Heights("Red_Line_Plane") :
              LET d == Distance(a, r)
              IN TierShown(labelText) =
                    IF d < 2 THEN "HIGH" ELSE IF d < 5 THEN "MODERATE" ELSE "LOW"

(* A prediction shown over a scene that runTest has emptied *)
C8_AfterClear ==
    /\ labelText.kind = "result"
    /\ cleared
    /\ scene = <<>>

C8_Witness ==
    /\ labelText.kind = "result"
    /\ TierShown(labelText) = "HIGH"
    /\ Heights("Amber_Line_Plane") = {0}
    /\ Heights("Red_Line_Plane") = {0}
    /\ markups["F"] = << <<0, 0, 5>> >>
    /\ markups["F_1"] = <<>>

(* C9: a run that fails because the bone or nerve node holds no control    *)
(* point changes the label's text only: the label's style sheet and the    *)
(* plane nodes stay as the previous run left them.                         *)
C9_PointsErrorKeepsStyle ==
    [][(RunStep /\ lastRun'.input = "noPoints") =>
          /\ labelText' = PointsErrorText
          /\ labelStyle' = labelStyle
          /\ scene' = scene
          /\ lastRead' = lastRead]_vars

C9_Witness ==
    /\ lastRun.input = "noPoints"
    /\ labelText = PointsErrorText
    /\ labelStyle = ResultStyle("#ffcccc")
    /\ lastRun.prePlanes = 2

(* C10: with a segmentation node selected, the label text, the label style *)
(* and the planes a run produces are the same for every segmentation node  *)
(* and every entry of the Target Tooth dropdown.                           *)
C10_SegmentationAndToothIgnored ==
    \A b \in DOMAIN markups \cup {None}, n \in DOMAIN markups \cup {None} :
       \A s \in segmentations, t \in 1..Len(updateSegmentList) :
          Outcome([seg |-> s, tooth |-> t, bone |-> b, nerve |-> n]) =
          Outcome([seg |-> CHOOSE s0 \in segmentations : TRUE, tooth |-> 1,
                   bone |-> b, nerve |-> n])

C10_Witness ==
    /\ ValidRun
    /\ lastRun.prePlanes = 2
    /\ segmentations = SegNodes
    /\ \E b \in DOMAIN markups, n \in DOMAIN markups :
          /\ Outcome([seg |-> "Segmentation", tooth |-> 1, bone |-> b, nerve |-> n])
                = <<labelText, labelStyle, scene>>
          /\ Outcome([seg |-> "Segmentation_1", tooth |-> 3, bone |-> b, nerve |-> n])
                = <<labelText, labelStyle, scene>>
          /\ labelText.kind = "result"

====
